---- MODULE Spec2Model ----
(***************************************************************************)
(* Model of src/commit.py: the GitHubSetup terminal wizard.                *)
(*                                                                         *)
(* The state is the GitHubSetup object (project_directory, git_config,     *)
(* ignored_files), the part of the environment the wizard acts on (the     *)
(* process working directory, the .gitignore file), the position of the    *)
(* wizard (pc), and a record of what the last step read and issued (the    *)
(* input() lines it consumed, the shell commands it ran with their         *)
(* outcome, the message it printed).                                       *)
(*                                                                         *)
(* Strings are TLA+ strings; Python's str methods are modelled character   *)
(* by character with Len, SubSeq and \o.                                   *)
(***************************************************************************)
EXTENDS Integers, Sequences, FiniteSets, Bags

VARIABLES
    pc,                 \* "select" | "menu" | "cred" | "link" | "exited"
    project_directory,  \* self.project_directory
    git_config,         \* self.git_config
    ignored_files,      \* self.ignored_files (a list)
    cwd,                \* the process working directory (os.chdir)
    gitignore,          \* the .gitignore file: [exists, lines (a bag)]
    op,                 \* the operation the last step ran (1..6), 0 if none
    inp,                \* the input() lines the last step consumed, in order
    last_cmds,          \* the run_shell_command calls of the last step, in order
    report,             \* the message the last step printed
    existing_config,    \* configure_git_credentials' local existing_config
    select_result,      \* what select_project_directory returned: "pending" | "true" | "false"
    last_path,          \* select_project_directory's local directory_path
    steps               \* number of menu choices read so far

vars == <<pc, project_directory, git_config, ignored_files, cwd, gitignore, op,
          inp, last_cmds, report, existing_config, select_result, last_path, steps>>

-----------------------------------------------------------------------------
(* Bounds *)

\* The menu loop is unbounded; the model dispatches at most MaxSteps operations
MaxSteps == 3

-----------------------------------------------------------------------------
(* Python str methods *)

Whitespace == {" ", "\t", "\n"}

Quotes == {"\"", "'"}

UpperLetters == "ABCDEFGHIJKLMNOPQRSTUVWXYZ"

LowerLetters == "abcdefghijklmnopqrstuvwxyz"

Range(s) == {s[i] : i \in DOMAIN s}

RECURSIVE LStripChars(_, _)
LStripChars(s, chars) ==
    IF Len(s) > 0 /\ SubSeq(s, 1, 1) \in chars
    THEN LStripChars(SubSeq(s, 2, Len(s)), chars)
    ELSE s

RECURSIVE RStripChars(_, _)
RStripChars(s, chars) ==
    IF Len(s) > 0 /\ SubSeq(s, Len(s), Len(s)) \in chars
    THEN RStripChars(SubSeq(s, 1, Len(s) - 1), chars)
    ELSE s

\* str.strip(chars)
StripChars(s, chars) == RStripChars(LStripChars(s, chars), chars)

\* str.strip()
Strip(s) == StripChars(s, Whitespace)

LowerChar(c) ==
    IF \E i \in 1..Len(UpperLetters) : SubSeq(UpperLetters, i, i) = c
    THEN LET i == CHOOSE j \in 1..Len(UpperLetters) : SubSeq(UpperLetters, j, j) = c
         IN  SubSeq(LowerLetters, i, i)
    ELSE c

\* str.lower()
RECURSIVE Lower(_)
Lower(s) ==
    IF Len(s) = 0 THEN s
    ELSE LowerChar(SubSeq(s, 1, 1)) \o Lower(SubSeq(s, 2, Len(s)))

\* str.startswith(p)
StartsWith(s, p) == Len(s) >= Len(p) /\ SubSeq(s, 1, Len(p)) = p

\* str.endswith(p)
EndsWith(s, p) == Len(s) >= Len(p) /\ SubSeq(s, Len(s) - Len(p) + 1, Len(s)) = p

\* str.split(sep) for a one-character sep: a list of Len >= 1
RECURSIVE Split(_, _)
Split(s, sep) ==
    IF \E i \in 1..Len(s) : SubSeq(s, i, i) = sep
    THEN LET i == CHOOSE j \in 1..Len(s) :
                    /\ SubSeq(s, j, j) = sep
                    /\ \A k \in 1..(j - 1) : SubSeq(s, k, k) # sep
         IN  <<SubSeq(s, 1, i - 1)>> \o Split(SubSeq(s, i + 1, Len(s)), sep)
    ELSE <<s>>

-----------------------------------------------------------------------------
(* The environment: the file system the wizard looks at, and what the user *)
(* can type at each prompt.                                                *)

ExistingDirs == {"/p", "/q"}

ExistingFiles == {"/f"}

StartDirectory == "/start"

PathInputs == {"/p", " \"/p\" ", "'/q'", "/f", "/x", ""}

RetryInputs == {"y", "Y", "n", ""}

MenuInputs == {"1", "2", "3", "4", "5", "6", "7", " 1", ""}

CommitMessages == {"", "init"}

-----------------------------------------------------------------------------
(* run_shell_command: one call, with the exit status the process gave.     *)

RunShellCommand(command, succeeded) == [cmd |-> command, ok |-> succeeded]

-----------------------------------------------------------------------------
(* __init__ *)

NoConfig == [present |-> FALSE, username |-> "", email |-> ""]

Init ==
    /\ pc = "select"
    /\ project_directory = ""
    /\ git_config = [username |-> "", email |-> "", repository_url |-> "",
                     commit_message |-> ""]
    /\ ignored_files = <<>>
    /\ cwd = StartDirectory
    /\ gitignore = [exists |-> FALSE, lines |-> EmptyBag]
    /\ op = 0
    /\ inp = <<>>
    /\ last_cmds = <<>>
    /\ report = "none"
    /\ existing_config = NoConfig
    /\ select_result = "pending"
    /\ last_path = ""
    /\ steps = 0

-----------------------------------------------------------------------------
(* select_project_directory: one iteration of its loop per step.           *)

\* os.path.exists(p) and os.path.isdir(p)
PathIsDirectory_exists_only(p) == p \in ExistingDirs \cup ExistingFiles

PathIsDirectory(p) ==
    /\ p \in ExistingDirs \cup ExistingFiles
    /\ p \in ExistingDirs

\* run_interactive_setup: the wizard exits when the selection returns False
AfterSelection_always_menu(selected) == "menu"

AfterSelection(selected) == IF selected THEN "menu" ELSE "exited"

SelectProjectDirectory ==
    /\ pc = "select"
    /\ \E directory_input \in PathInputs :
         LET directory_path == StripChars(Strip(directory_input), Quotes)
         IN  /\ last_path' = directory_path
             /\ IF PathIsDirectory(directory_path)
                THEN /\ inp' = <<directory_input>>
                     /\ \E chdir_ok \in BOOLEAN :
                          IF chdir_ok
                          THEN /\ cwd' = directory_path
                               /\ project_directory' = directory_path
                               /\ report' = "dir_set"
                               /\ select_result' = "true"
                               /\ pc' = AfterSelection(TRUE)
                          ELSE \* os.chdir raised: caught, the loop prompts again
                               /\ report' = "chdir_error"
                               /\ UNCHANGED <<cwd, project_directory, select_result, pc>>
                ELSE \E retry_input \in RetryInputs :
                       /\ inp' = <<directory_input, retry_input>>
                       /\ report' = "invalid_dir"
                       /\ UNCHANGED <<cwd, project_directory>>
                       /\ IF Lower(retry_input) # "y"
                          THEN /\ select_result' = "false"
                               /\ pc' = AfterSelection(FALSE)
                          ELSE UNCHANGED <<select_result, pc>>
    /\ op' = 0
    /\ last_cmds' = <<>>
    /\ UNCHANGED <<git_config, ignored_files, gitignore, existing_config, steps>>

-----------------------------------------------------------------------------
(* run_interactive_setup: the menu loop.                                   *)

\* menu_options.get(choice): the operation number, 0 for None
MenuAction_shifted(choice) ==
    CASE choice = "1" -> 2
      [] choice = "2" -> 1
      [] choice = "3" -> 3
      [] choice = "4" -> 4
      [] choice = "5" -> 5
      [] choice = "6" -> 6
      [] OTHER -> 0

MenuAction(choice) ==
    CASE choice = "1" -> 1
      [] choice = "2" -> 2
      [] choice = "3" -> 3
      [] choice = "4" -> 4
      [] choice = "5" -> 5
      [] choice = "6" -> 6
      [] OTHER -> 0

\* The menu reads a choice that selects operation n
Dispatch(choice, n) ==
    /\ pc = "menu"
    /\ steps < MaxSteps
    /\ choice # "7"
    /\ MenuAction(choice) = n
    /\ op' = n
    /\ steps' = steps + 1

MenuExit ==
    /\ pc = "menu"
    /\ inp' = <<"7">>
    /\ pc' = "exited"
    /\ op' = 0
    /\ last_cmds' = <<>>
    /\ report' = "exiting"
    /\ existing_config' = NoConfig
    /\ UNCHANGED <<project_directory, git_config, ignored_files, cwd, gitignore,
                   select_result, last_path, steps>>

MenuInvalid ==
    /\ pc = "menu"
    /\ \E choice \in MenuInputs :
         /\ choice # "7"
         /\ MenuAction(choice) = 0
         /\ inp' = <<choice>>
    /\ op' = 0
    /\ last_cmds' = <<>>
    /\ report' = "invalid_option"
    /\ existing_config' = NoConfig
    /\ UNCHANGED <<pc, project_directory, git_config, ignored_files, cwd, gitignore,
                   select_result, last_path, steps>>

-----------------------------------------------------------------------------
(* initialize_local_repository *)

InitializeLocalRepository ==
    /\ \E choice \in MenuInputs :
         /\ Dispatch(choice, 2)
         /\ inp' = <<choice>>
         /\ \E init_ok \in BOOLEAN :
              /\ last_cmds' = <<RunShellCommand("git init", init_ok)>>
              /\ report' = IF init_ok THEN "init_ok" ELSE "init_failed"
    /\ existing_config' = NoConfig
    /\ UNCHANGED <<pc, project_directory, git_config, ignored_files, cwd, gitignore,
                   select_result, last_path>>

-----------------------------------------------------------------------------
(* stage_and_commit_changes *)

CommitReport_either(staging_result, commit_result) ==
    IF staging_result \/ commit_result THEN "commit_ok" ELSE "commit_failed"

CommitReport(staging_result, commit_result) ==
    IF staging_result /\ commit_result THEN "commit_ok" ELSE "commit_failed"

\* The commit message stored in the wrong attribute
StageAndCommitChanges_wrong_field ==
    /\ \E choice \in MenuInputs :
         /\ Dispatch(choice, 4)
         /\ \E message \in CommitMessages, staging_result \in BOOLEAN,
               commit_result \in BOOLEAN :
              /\ inp' = <<choice, message>>
              /\ project_directory' = message
              /\ last_cmds' =
                   << RunShellCommand("git add .", staging_result),
                      RunShellCommand("git commit -m \"" \o message \o "\"",
                                      commit_result) >>
              /\ report' = CommitReport(staging_result, commit_result)
    /\ existing_config' = NoConfig
    /\ UNCHANGED <<pc, git_config, ignored_files, cwd, gitignore,
                   select_result, last_path>>

StageAndCommitChanges ==
    /\ \E choice \in MenuInputs :
         /\ Dispatch(choice, 4)
         /\ \E message \in CommitMessages, staging_result \in BOOLEAN,
               commit_result \in BOOLEAN :
              /\ inp' = <<choice, message>>
              /\ git_config' = [git_config EXCEPT !.commit_message = message]
              /\ last_cmds' =
                   << RunShellCommand("git add .", staging_result),
                      RunShellCommand("git commit -m \"" \o message \o "\"",
                                      commit_result) >>
              /\ report' = CommitReport(staging_result, commit_result)
    /\ existing_config' = NoConfig
    /\ UNCHANGED <<pc, project_directory, ignored_files, cwd, gitignore,
                   select_result, last_path>>

-----------------------------------------------------------------------------
(* push_to_github *)

PushReport(branch_rename_result, push_result) ==
    IF branch_rename_result /\ push_result THEN "push_ok" ELSE "push_failed"

PushToGithub ==
    /\ \E choice \in MenuInputs :
         /\ Dispatch(choice, 6)
         /\ inp' = <<choice>>
         /\ \E branch_rename_result \in BOOLEAN, push_result \in BOOLEAN :
              /\ last_cmds' =
                   << RunShellCommand("git branch -M main", branch_rename_result),
                      RunShellCommand("git push -u origin main", push_result) >>
              /\ report' = PushReport(branch_rename_result, push_result)
    /\ existing_config' = NoConfig
    /\ UNCHANGED <<pc, project_directory, git_config, ignored_files, cwd, gitignore,
                   select_result, last_path>>

-----------------------------------------------------------------------------
(* check_existing_git_config and configure_git_credentials                 *)

\* What `git config --global user.name` / `user.email` can answer
NameOutputs == { [returncode |-> 0, stdout |-> "al\n"],
                 [returncode |-> 1, stdout |-> ""] }

EmailOutputs == { [returncode |-> 0, stdout |-> "a@x\n"],
                  [returncode |-> 1, stdout |-> ""] }

KeepInputs == {"k", "K", "c", "u", ""}

NameInputs == {"", " bo "}

EmailInputs == {" ", "b@x"}

CheckExistingGitConfig(username_cmd, email_cmd) ==
    IF username_cmd.returncode = 0 /\ email_cmd.returncode = 0
    THEN [present |-> TRUE,
          username |-> Strip(username_cmd.stdout),
          email |-> Strip(email_cmd.stdout)]
    ELSE NoConfig

\* choice == 'k': the existing identity becomes the in-memory one
KeepExisting_swapped(config, existing) ==
    [config EXCEPT !.username = existing.email, !.email = existing.username]

KeepExisting(config, existing) ==
    [config EXCEPT !.username = existing.username, !.email = existing.email]

\* Menu choice 1, up to the keep / update / cancel branch
ConfigureGitCredentials ==
    /\ \E choice \in MenuInputs :
         /\ Dispatch(choice, 1)
         /\ \E username_cmd \in NameOutputs, email_cmd \in EmailOutputs :
              LET existing == CheckExistingGitConfig(username_cmd, email_cmd)
              IN  /\ existing_config' = existing
                  /\ IF existing.present
                     THEN \E keep_input \in KeepInputs :
                            LET keep == Lower(keep_input)
                            IN  /\ inp' = <<choice, keep_input>>
                                /\ IF keep = "k"
                                   THEN /\ git_config' = KeepExisting(git_config, existing)
                                        /\ report' = "cred_kept"
                                        /\ pc' = "menu"
                                   ELSE IF keep = "c"
                                   THEN /\ report' = "cred_cancelled"
                                        /\ UNCHANGED <<git_config, pc>>
                                   ELSE /\ report' = "cred_found"
                                        /\ pc' = "cred"
                                        /\ UNCHANGED git_config
                     ELSE /\ inp' = <<choice>>
                          /\ report' = "none"
                          /\ pc' = "cred"
                          /\ UNCHANGED git_config
    /\ last_cmds' = <<>>
    /\ UNCHANGED <<project_directory, ignored_files, cwd, gitignore, select_result,
                   last_path>>

\* One iteration of the "Proceed with new configuration" loop
EnterGitCredentials ==
    /\ pc = "cred"
    /\ \E name_input \in NameInputs, email_input \in EmailInputs,
          username_ok \in BOOLEAN, email_ok \in BOOLEAN :
         LET username == Strip(name_input)
             email == Strip(email_input)
             username_cmd == "git config --global user.name \"" \o username \o "\""
             email_cmd == "git config --global user.email \"" \o email \o "\""
         IN  /\ inp' = <<name_input, email_input>>
             /\ git_config' = [git_config EXCEPT !.username = username, !.email = email]
             \* `a and b`: the second command runs only when the first succeeded
             /\ last_cmds' =
                  IF username_ok
                  THEN << RunShellCommand(username_cmd, username_ok),
                          RunShellCommand(email_cmd, email_ok) >>
                  ELSE << RunShellCommand(username_cmd, username_ok) >>
             /\ IF username_ok /\ email_ok
                THEN /\ report' = "cred_ok"
                     /\ pc' = "menu"
                ELSE /\ report' = "cred_retry"
                     /\ pc' = "cred"
    /\ op' = 1
    /\ UNCHANGED <<project_directory, ignored_files, cwd, gitignore, existing_config,
                   select_result, last_path, steps>>

-----------------------------------------------------------------------------
(* link_remote_repository *)

UrlInputs == { "https://github.com/u/r.git", " git@github.com:u/r.git ",
               "https://github.com/u/r", "ftp://example.com/r.git",
               ".git", "" }

IsValidRepoUrl_either(repo_url) ==
    \/ StartsWith(repo_url, "https://github.com/")
    \/ StartsWith(repo_url, "git@github.com:")
    \/ EndsWith(repo_url, ".git")

IsValidRepoUrl(repo_url) ==
    /\ \/ StartsWith(repo_url, "https://github.com/")
       \/ StartsWith(repo_url, "git@github.com:")
    /\ EndsWith(repo_url, ".git")

\* Menu choice 5: the operation starts at its first prompt
LinkRemoteRepository ==
    /\ \E choice \in MenuInputs :
         /\ Dispatch(choice, 5)
         /\ inp' = <<choice>>
    /\ pc' = "link"
    /\ last_cmds' = <<>>
    /\ report' = "none"
    /\ existing_config' = NoConfig
    /\ UNCHANGED <<project_directory, git_config, ignored_files, cwd, gitignore,
                   select_result, last_path>>

\* One iteration of the loop: a URL is read, validated and, if valid, linked
EnterRepositoryUrl ==
    /\ pc = "link"
    /\ \E url_input \in UrlInputs :
         LET repo_url == Strip(url_input)
         IN  IF IsValidRepoUrl(repo_url)
             THEN /\ inp' = <<url_input>>
                  /\ git_config' = [git_config EXCEPT !.repository_url = repo_url]
                  /\ \E link_ok \in BOOLEAN :
                       /\ last_cmds' =
                            <<RunShellCommand("git remote add origin " \o repo_url,
                                              link_ok)>>
                       /\ IF link_ok
                          THEN /\ report' = "link_ok"
                               /\ pc' = "menu"
                          ELSE /\ report' = "link_failed"
                               /\ pc' = "link"
             ELSE \E retry_input \in RetryInputs :
                    /\ inp' = <<url_input, retry_input>>
                    /\ last_cmds' = <<>>
                    /\ report' = "link_invalid"
                    /\ pc' = IF Lower(retry_input) # "y" THEN "menu" ELSE "link"
                    /\ UNCHANGED git_config
    /\ op' = 5
    /\ UNCHANGED <<project_directory, ignored_files, cwd, gitignore, existing_config,
                   select_result, last_path, steps>>

-----------------------------------------------------------------------------
(* create_comprehensive_gitignore *)

predefined_ignores ==
    [ key \in {"1", "2", "3", "4", "5"} |->
        CASE key = "1" -> <<"node_modules/", "*.log", ".DS_Store">>
          [] key = "2" -> <<"*.pyc", "__pycache__/", ".venv/", "venv/">>
          [] key = "3" -> <<"*.class", "target/", "build/">>
          [] key = "4" -> <<".idea/", ".vscode/", "*.sublime-project",
                            "*.sublime-workspace">>
          [] key = "5" -> <<"*.swp", "*.swo", "*~">> ]

SelectionInputs == {"7", "1", "1, 1", "5,6", "6", ""}

ManualInputs == {"", "*.swp, a", "a,,a"}

\* [i.strip() for i in manual_ignores if i.strip()]
RECURSIVE ManualEntries(_)
ManualEntries(manual_ignores) ==
    IF manual_ignores = <<>> THEN <<>>
    ELSE LET i == Strip(Head(manual_ignores))
         IN  (IF i # "" THEN <<i>> ELSE <<>>) \o ManualEntries(Tail(manual_ignores))

\* How many times the loop over the options prompts for custom entries
RECURSIVE CountManual(_)
CountManual(options) ==
    IF options = <<>> THEN 0
    ELSE (IF Strip(Head(options)) = "6" THEN 1 ELSE 0) + CountManual(Tail(options))

\* The loop over selected_options; manual holds the answers to its prompts
RECURSIVE CollectIgnores(_, _)
CollectIgnores(options, manual) ==
    IF options = <<>> THEN <<>>
    ELSE LET option == Strip(Head(options))
         IN  IF option \in DOMAIN predefined_ignores
             THEN predefined_ignores[option] \o CollectIgnores(Tail(options), manual)
             ELSE IF option = "6"
             THEN ManualEntries(Split(Head(manual), ","))
                     \o CollectIgnores(Tail(options), Tail(manual))
             ELSE CollectIgnores(Tail(options), manual)

RECURSIVE BagOfSeq(_)
BagOfSeq(entries) ==
    IF entries = <<>> THEN EmptyBag
    ELSE SetToBag({Head(entries)}) (+) BagOfSeq(Tail(entries))

\* for entry in set(self.ignored_files): write(entry + "\n").  The iteration
\* order of a Python set is unspecified, so the file is kept as the bag of
\* its lines.
WrittenLines_no_dedup(entries) == BagOfSeq(entries)

WrittenLines(entries) == SetToBag(Range(entries))

CreateComprehensiveGitignore ==
    /\ \E choice \in MenuInputs :
         /\ Dispatch(choice, 3)
         /\ \E selection \in SelectionInputs :
              LET selected_options == Split(selection, ",")
              IN  \E manual \in [1..CountManual(selected_options) -> ManualInputs] :
                    LET collected == CollectIgnores(selected_options, manual)
                    IN  /\ inp' = <<choice, selection>> \o manual
                        /\ ignored_files' = collected
                        /\ IF collected # <<>>
                           THEN \E write_ok \in BOOLEAN :
                                  IF write_ok
                                  THEN /\ gitignore' =
                                            [exists |-> TRUE,
                                             lines |-> WrittenLines(collected)]
                                       /\ report' = "gitignore_ok"
                                  ELSE \* open() raised IOError: nothing was written
                                       /\ report' = "gitignore_error"
                                       /\ UNCHANGED gitignore
                           ELSE /\ report' = "none"
                                /\ UNCHANGED gitignore
    /\ last_cmds' = <<>>
    /\ existing_config' = NoConfig
    /\ UNCHANGED <<pc, project_directory, git_config, cwd, select_result, last_path>>

-----------------------------------------------------------------------------

Next ==
    \/ SelectProjectDirectory
    \/ MenuExit
    \/ MenuInvalid
    \/ ConfigureGitCredentials
    \/ EnterGitCredentials
    \/ InitializeLocalRepository
    \/ CreateComprehensiveGitignore
    \/ StageAndCommitChanges
    \/ LinkRemoteRepository
    \/ EnterRepositoryUrl
    \/ PushToGithub

Spec == Init /\ [][Next]_vars

-----------------------------------------------------------------------------
(* Properties *)

\* The RemoteLink pattern, as the specification words it
MatchesRemoteLinkPattern(u) ==
    /\ \/ StartsWith(u, "https://github.com/")
       \/ StartsWith(u, "git@github.com:")
    /\ EndsWith(u, ".git")

\* C1: for every URL u entered in link_remote_repository, the command
\* 'git remote add origin u' is issued if and only if u starts with
\* 'https://github.com/' or 'git@github.com:' and ends with '.git'; for any
\* other u no command is issued and the stored repository_url is unchanged.
C1_LinkIssuesCommandIffValid ==
    [][ pc = "link" =>
          LET u == Strip(inp'[1])
          IN  IF MatchesRemoteLinkPattern(u)
              THEN /\ Len(last_cmds') = 1
                   /\ last_cmds'[1].cmd = "git remote add origin " \o u
              ELSE /\ last_cmds' = <<>>
                   /\ git_config'.repository_url = git_config.repository_url ]_vars

\* An invalid URL was refused while a URL accepted earlier is still stored
C1_Witness ==
    /\ report = "link_invalid"
    /\ inp[1] = "ftp://example.com/r.git"
    /\ git_config.repository_url = "git@github.com:u/r.git"

\* C2: in configure_git_credentials, when the update path is taken and the
\* entered name or email is empty after trimming, the update is rejected and
\* no 'git config --global' set command is issued.
C2_EmptyIdentityIssuesNoCommand ==
    ( /\ op = 1
      /\ report \in {"cred_ok", "cred_retry"}
      /\ (Strip(inp[1]) = "" \/ Strip(inp[2]) = "") )
    => last_cmds = <<>>

\* C3 as stated: each entered path makes select_project_directory return True
\* if and only if it exists and is a directory; on True project_directory and
\* the working directory are that path, otherwise project_directory is unchanged.
C3_ReturnsTrueIffDirectory ==
    [][ pc = "select" =>
          /\ (select_result' = "true") <=> (last_path' \in ExistingDirs)
          /\ select_result' = "true" =>
               (project_directory' = last_path' /\ cwd' = last_path')
          /\ select_result' # "true" => project_directory' = project_directory ]_vars

\* C3 amended: each entered path (trimmed, surrounding quotes removed) makes
\* select_project_directory return True if and only if it exists, is a
\* directory and os.chdir to it did not raise; on True project_directory and
\* the working directory are that path; otherwise (False, or another prompt)
\* project_directory and the working directory are unchanged.
C3_ReturnsTrueIffDirectoryEntered ==
    [][ pc = "select" =>
          /\ (select_result' = "true") <=>
               (last_path' \in ExistingDirs /\ report' # "chdir_error")
          /\ report' = "chdir_error" => last_path' \in ExistingDirs
          /\ select_result' = "true" =>
               (project_directory' = last_path' /\ cwd' = last_path')
          /\ select_result' # "true" =>
               (project_directory' = project_directory /\ cwd' = cwd)
          /\ select_result' = "false" => last_path' \notin ExistingDirs ]_vars

\* A quoted directory was entered and accepted
C3_Witness ==
    /\ select_result = "true"
    /\ inp = <<"'/q'">>
    /\ project_directory = "/q"
    /\ cwd = "/q"

\* C4: no repository operation is dispatched while project_directory is unset.
C4_NoOperationWhileUnset == op # 0 => project_directory # ""

C4_Witness == op = 6 /\ report = "push_failed" /\ project_directory = "/p"

\* Some command of the list exited non-zero
Failed(cmds) == \E i \in DOMAIN cmds : ~cmds[i].ok

\* C5: when a command issued by a dispatched operation fails, the operation
\* ends and control is back at the menu.
C5_FailedCommandReturnsToMenu == (op # 0 /\ Failed(last_cmds)) => pc = "menu"

Digits == <<"1", "2", "3", "4", "5", "6">>

\* The first command each operation issues when it is dispatched
FirstCommand == << "", "git init", "", "git add .", "", "git branch -M main" >>

\* C6: the wizard starts in AwaitingWorkspace (pc = "select"), enters Menu only
\* after select_project_directory returned True and is Exited when it returned
\* False; from Menu, '7' leads to Exited, each of '1'..'6' dispatches exactly
\* its own operation, which gives control back only to Menu, and any other
\* input dispatches nothing and stays in Menu.
C6_WizardStateMachine ==
    /\ pc = "select"
    /\ [][ /\ pc = "select" =>
                /\ pc' \in {"select", "menu", "exited"}
                /\ pc' = "menu" <=> select_result' = "true"
                /\ pc' = "exited" <=> select_result' = "false"
                /\ op' = 0
           /\ pc = "menu" =>
                LET choice == inp'[1]
                IN  /\ choice = "7" => (pc' = "exited" /\ op' = 0)
                    /\ \A n \in 1..6 :
                         choice = Digits[n] =>
                           /\ op' = n
                           /\ pc' \in {"menu", IF n = 1 THEN "cred" ELSE
                                               IF n = 5 THEN "link" ELSE "menu"}
                           /\ IF FirstCommand[n] = "" THEN last_cmds' = <<>>
                              ELSE /\ last_cmds' # <<>>
                                   /\ last_cmds'[1].cmd = FirstCommand[n]
                    /\ choice \notin Range(Digits) \cup {"7"} =>
                         (pc' = "menu" /\ op' = 0 /\ last_cmds' = <<>>)
           /\ pc = "cred" => (op' = 1 /\ pc' \in {"cred", "menu"})
           /\ pc = "link" => (op' = 5 /\ pc' \in {"link", "menu"})
           /\ pc = "exited" => pc' = "exited" ]_vars

\* An operation was dispatched from the menu and control is back at the menu
C6_Witness == pc = "menu" /\ op = 2 /\ inp = <<"2">> /\ steps = MaxSteps

\* The deduplicated union of the patterns of the selected template keys and
\* the trimmed non-empty custom entries, from what the user typed
ExpectedPatterns(typed) ==
    LET keys == {Strip(o) : o \in Range(Split(typed[2], ","))}
                   \cap {"1", "2", "3", "4", "5"}
        custom == UNION {Range(Split(typed[i], ",")) : i \in 3..Len(typed)}
    IN  UNION {Range(predefined_ignores[k]) : k \in keys}
            \cup ({Strip(e) : e \in custom} \ {""})

C8_BothCommandsInOrder ==
    /\ op = 4 =>
         /\ Len(last_cmds) = 2
         /\ last_cmds[1].cmd = "git add ."
         /\ last_cmds[2].cmd = "git commit -m \"" \o inp[2] \o "\""
         /\ report \in {"commit_ok", "commit_failed"}
         /\ (report = "commit_ok") <=> (last_cmds[1].ok /\ last_cmds[2].ok)
    /\ op = 6 =>
         /\ Len(last_cmds) = 2
         /\ last_cmds[1].cmd = "git branch -M main"
         /\ last_cmds[2].cmd = "git push -u origin main"
         /\ report \in {"push_ok", "push_failed"}
         /\ (report = "push_ok") <=> (last_cmds[1].ok /\ last_cmds[2].ok)

\* Staging succeeded, the commit failed, and failure was reported
C8_Witness ==
    /\ op = 4
    /\ report = "commit_failed"
    /\ last_cmds[1].ok
    /\ ~last_cmds[2].ok

\* C9: with an existing global identity, 'keep' sets the in-memory username
\* and email to the existing values and issues no command; 'cancel' issues no
\* command and leaves the in-memory username and email unchanged.
C9_KeepAndCancel ==
    [][ (pc = "menu" /\ op' = 1 /\ existing_config'.present) =>
          /\ Lower(inp'[2]) = "k" =>
               /\ git_config'.username = existing_config'.username
               /\ git_config'.email = existing_config'.email
               /\ last_cmds' = <<>>
               /\ pc' = "menu"
          /\ Lower(inp'[2]) = "c" =>
               /\ git_config' = git_config
               /\ last_cmds' = <<>>
               /\ pc' = "menu" ]_vars

\* The identity git printed was kept
C9_Witness ==
    /\ op = 1
    /\ inp = <<"1", "K">>
    /\ existing_config.present
    /\ git_config.username = "al"
    /\ git_config.email = "a@x"

\* C10: once the wizard has reached the menu, no step changes
\* project_directory.
C10_DirectoryWrittenOnce ==
    [][ pc # "select" => project_directory' = project_directory ]_vars

\* A directory was selected and operations have run on it since
C10_Witness ==
    /\ pc = "menu"
    /\ steps = MaxSteps
    /\ op = 4
    /\ project_directory = "/q"

====
